---- MODULE Spec2Model ----
(***************************************************************************)
(* A model of the generative request gateway of src/main.py: the API-key   *)
(* gate, the unary upstream call and its error pass-through, the text      *)
(* extraction of /chat, the payload check of /generate-image, the catalog  *)
(* routes, and the line-by-line relay of /chat/stream.                     *)
(*                                                                         *)
(* JSON values are tagged records [t |-> tag, v |-> value]: a JSON object  *)
(* holds a function from its keys to JSON values, a JSON array a sequence. *)
(***************************************************************************)
EXTENDS Integers, Sequences, FiniteSets, TLC

VARIABLES
    apiToken,   \* API_TOKEN, read from the environment at start-up
    req,        \* the inbound request being (or last) handled
    up,         \* what the upstream did on the unary call of that request
    resp,       \* the response sent to the client for that request
    calls,      \* the outbound calls made while handling that request
    unhandled,  \* an exception left the route handler uncaught
    gen,        \* position of the event_stream generator of /chat/stream
    r,          \* the upstream streaming response the generator holds
    lines,      \* the upstream lines r.iter_lines() has delivered so far
    out,        \* the events the generator has yielded, in order
    resolver,   \* the model hint and the catalog the Model Resolver was given
    connOpen,   \* the upstream streaming response is open (held by the with block)
    clientGone  \* the client of the streaming response has disconnected

vars == <<apiToken, req, up, resp, calls, unhandled, gen, r, lines, out, resolver, connOpen,
          clientGone>>

----------------------------------------------------------------------------
(* JSON values and the Python operations the handlers apply to them.       *)

JS(s) == [t |-> "str", v |-> s]
JO(f) == [t |-> "obj", v |-> f]
JA(a) == [t |-> "arr", v |-> a]
JNum(n) == [t |-> "num", v |-> n]
JBool(b) == [t |-> "bool", v |-> b]
JNull == [t |-> "null", v |-> "None"]
EmptyObj == JO(<<>>)
EmptyArr == JA(<<>>)

\* a response body that resp.json() cannot decode
NotJson == [t |-> "notjson", v |-> "<html>"]

\* dict.get(key, default)
Get(obj, key, default) == IF key \in DOMAIN obj.v THEN obj.v[key] ELSE default

\* Python truth value of a JSON value (`not x` is ~Truthy(x))
Truthy(j) ==
    CASE j.t = "str" -> j.v # ""
      [] j.t = "arr" -> Len(j.v) > 0
      [] j.t = "obj" -> DOMAIN j.v # {}
      [] j.t = "num" -> j.v # 0
      [] j.t = "bool" -> j.v
      [] OTHER -> FALSE

----------------------------------------------------------------------------
(* Configuration.                                                          *)

DefaultApiToken == "defaultapitoken"
Timeout == 30
V1_BASE_URL == "https://generativelanguage.googleapis.com/v1/models"
V1BETA_BASE_URL == "https://generativelanguage.googleapis.com/v1beta/models"
TEXT_URL == <<V1_BASE_URL, "/gemini-1.5-pro:generateContent">>
STREAM_URL == <<V1BETA_BASE_URL, "/gemini-1.5-pro:streamGenerateContent">>
IMAGE_URL == <<V1BETA_BASE_URL, "/gemini-1.5-flash:generateContent">>

----------------------------------------------------------------------------
(* What a handler hands back to the framework: a value (exc = "none"), an  *)
(* HTTPException (exc = "http") or any other exception (exc = "error"),    *)
(* together with the outbound calls it made.                               *)

Ret(exc, status, value, made) ==
    [exc |-> exc, status |-> status, value |-> value, calls |-> made]

Outbound(method, url, payload, timeout) ==
    [method |-> method, url |-> url, json |-> payload, timeout |-> timeout]

\* the members of http.HTTPStatus
HTTPStatus ==
    { 100, 101, 102, 103, 200, 201, 202, 203, 204, 205, 206, 207, 208, 226,
      300, 301, 302, 303, 304, 305, 307, 308, 400, 401, 402, 403, 404, 405,
      406, 407, 408, 409, 410, 411, 412, 413, 414, 415, 416, 417, 418, 421,
      422, 423, 424, 425, 426, 428, 429, 431, 451, 500, 501, 502, 503, 504,
      505, 506, 507, 508, 510, 511 }

\* http.HTTPStatus(status_code).phrase, for a member
Phrase(status) ==
    CASE status = 100 -> "Continue"
      [] status = 101 -> "Switching Protocols"
      [] status = 102 -> "Processing"
      [] status = 103 -> "Early Hints"
      [] status = 200 -> "OK"
      [] status = 201 -> "Created"
      [] status = 202 -> "Accepted"
      [] status = 203 -> "Non-Authoritative Information"
      [] status = 204 -> "No Content"
      [] status = 205 -> "Reset Content"
      [] status = 206 -> "Partial Content"
      [] status = 207 -> "Multi-Status"
      [] status = 208 -> "Already Reported"
      [] status = 226 -> "IM Used"
      [] status = 300 -> "Multiple Choices"
      [] status = 301 -> "Moved Permanently"
      [] status = 302 -> "Found"
      [] status = 303 -> "See Other"
      [] status = 304 -> "Not Modified"
      [] status = 305 -> "Use Proxy"
      [] status = 307 -> "Temporary Redirect"
      [] status = 308 -> "Permanent Redirect"
      [] status = 400 -> "Bad Request"
      [] status = 401 -> "Unauthorized"
      [] status = 402 -> "Payment Required"
      [] status = 403 -> "Forbidden"
      [] status = 404 -> "Not Found"
      [] status = 405 -> "Method Not Allowed"
      [] status = 406 -> "Not Acceptable"
      [] status = 407 -> "Proxy Authentication Required"
      [] status = 408 -> "Request Timeout"
      [] status = 409 -> "Conflict"
      [] status = 410 -> "Gone"
      [] status = 411 -> "Length Required"
      [] status = 412 -> "Precondition Failed"
      [] status = 413 -> "Request Entity Too Large"
      [] status = 414 -> "Request-URI Too Long"
      [] status = 415 -> "Unsupported Media Type"
      [] status = 416 -> "Requested Range Not Satisfiable"
      [] status = 417 -> "Expectation Failed"
      [] status = 418 -> "I'm a Teapot"
      [] status = 421 -> "Misdirected Request"
      [] status = 422 -> "Unprocessable Entity"
      [] status = 423 -> "Locked"
      [] status = 424 -> "Failed Dependency"
      [] status = 425 -> "Too Early"
      [] status = 426 -> "Upgrade Required"
      [] status = 428 -> "Precondition Required"
      [] status = 429 -> "Too Many Requests"
      [] status = 431 -> "Request Header Fields Too Large"
      [] status = 451 -> "Unavailable For Legal Reasons"
      [] status = 500 -> "Internal Server Error"
      [] status = 501 -> "Not Implemented"
      [] status = 502 -> "Bad Gateway"
      [] status = 503 -> "Service Unavailable"
      [] status = 504 -> "Gateway Timeout"
      [] status = 505 -> "HTTP Version Not Supported"
      [] status = 506 -> "Variant Also Negotiates"
      [] status = 507 -> "Insufficient Storage"
      [] status = 508 -> "Loop Detected"
      [] status = 510 -> "Not Extended"
      [] status = 511 -> "Network Authentication Required"

\* raise HTTPException(status_code, detail): a detail of None is replaced by
\* the phrase of the status, and looking up a status that is no member of
\* HTTPStatus raises ValueError in place of the HTTPException
HTTPException(status, detail, made) ==
    IF detail # JNull THEN Ret("http", status, detail, made)
    ELSE IF status \in HTTPStatus THEN Ret("http", status, JS(Phrase(status)), made)
    ELSE Ret("error", 0, JS("ValueError"), made)

\* an exception other than HTTPException, named by its class
Raise(name, made) == Ret("error", 0, JS(name), made)

\* api_key_header = APIKeyHeader(name="X-API-KEY"): with the header absent or
\* empty the framework answers itself and verify_api_key never runs.
api_key_header(header, autoStatus) ==
    IF ~header.present \/ header.value = ""
    THEN HTTPException(autoStatus, JS("Not authenticated"), <<>>)
    ELSE Ret("none", 200, JS(header.value), <<>>)

verify_api_key(api_key, token) ==
    IF api_key # token
    THEN HTTPException(401, JO([error |-> JS("Invalid API Token")]), <<>>)
    ELSE Ret("none", 200, JNull, <<>>)

\* dependencies=[Depends(verify_api_key)]: the gate runs before the route body
Protected(header, autoStatus, token, body) ==
    LET k == api_key_header(header, autoStatus) IN
    IF k.exc # "none" THEN k
    ELSE LET g == verify_api_key(k.value.v, token) IN
         IF g.exc # "none" THEN g ELSE body

\* one entry of the detail of a request validation error
ValidationEntry(type, loc, msg, input) ==
    [type |-> JS(type), loc |-> JA(loc), msg |-> JS(msg), input |-> input]

\* the entry for a request body that json.loads rejects at position 0
JsonInvalid ==
    JO([type |-> JS("json_invalid"), loc |-> JA(<<JS("body"), JNum(0)>>),
        msg |-> JS("JSON decode error"), input |-> EmptyObj,
        ctx |-> JO([error |-> JS("Expecting value")])])

\* raise RequestValidationError(errors), answered by the framework with 422
RequestValidationError(errors) == Ret("validation", 422, JA(errors), <<>>)

\* class ChatRequest(BaseModel): prompt: str -- validation of a decoded
\* body: the request's fields, or the errors found; other members of the
\* body are ignored and no value is converted to a string
ChatRequest(body) ==
    CASE body.t = "null" ->
           [ok |-> FALSE,
            v |-> <<JO(ValidationEntry("missing", <<JS("body")>>, "Field required", body))>>]
      [] body.t # "obj" ->
           [ok |-> FALSE,
            v |-> <<JO(ValidationEntry("model_attributes_type", <<JS("body")>>,
                       "Input should be a valid dictionary or object to extract fields from",
                       body))>>]
      [] "prompt" \notin DOMAIN body.v ->
           [ok |-> FALSE,
            v |-> <<JO(ValidationEntry("missing", <<JS("body"), JS("prompt")>>,
                       "Field required", body))>>]
      [] body.v.prompt.t # "str" ->
           [ok |-> FALSE,
            v |-> <<JO(ValidationEntry("string_type", <<JS("body"), JS("prompt")>>,
                       "Input should be a valid string", body.v.prompt))>>]
      [] OTHER -> [ok |-> TRUE, v |-> [prompt |-> body.v.prompt.v]]

\* data.get of a decoded body is there only when the body is a JSON object
call_google_api(url, payload, u) ==
    LET made == <<Outbound("POST", url, payload, Timeout)>> IN
    IF u.kind # "response" THEN Raise(u.kind, made)
    ELSE IF u.body = NotJson THEN Raise("JSONDecodeError", made)
    ELSE IF u.status # 200
         THEN IF u.body.t # "obj" THEN Raise("AttributeError", made)
              ELSE HTTPException(u.status, Get(u.body, "error", u.body), made)
         ELSE Ret("none", 200, u.body, made)

ChatPayload(prompt) ==
    JO([contents |-> JA(<<JO([role |-> JS("user"),
                              parts |-> JA(<<JO([text |-> JS(prompt)])>>)])>>)])

\* the outcome of an expression: its value, or the exception it raises
Ok(value) == [ok |-> TRUE, v |-> value]
Fail(name) == [ok |-> FALSE, v |-> JS(name)]

\* x[0].get(key, default) for a truthy x: a list gives its first element, a
\* string its first character, a dict has no key 0, a number no subscript;
\* .get is there only on a dict
FirstGet(x, key, default) ==
    CASE x.t = "arr" -> IF x.v[1].t = "obj" THEN Ok(Get(x.v[1], key, default))
                        ELSE Fail("AttributeError")
      [] x.t = "str" -> Fail("AttributeError")
      [] x.t = "obj" -> Fail("KeyError")
      [] OTHER -> Fail("TypeError")

\* the "safe parsing" of chat
ExtractText(result) ==
    IF result.t # "obj" THEN Fail("AttributeError")
    ELSE LET candidates == Get(result, "candidates", EmptyArr) IN
         IF ~Truthy(candidates) THEN Ok(JS(""))
         ELSE LET content == FirstGet(candidates, "content", EmptyObj) IN
              IF ~content.ok THEN content
              ELSE IF content.v.t # "obj" THEN Fail("AttributeError")
              ELSE LET parts == Get(content.v, "parts", EmptyArr) IN
                   IF Truthy(parts) THEN FirstGet(parts, "text", JS("")) ELSE Ok(JS(""))

chat(prompt, u) ==
    LET result == call_google_api(TEXT_URL, ChatPayload(prompt), u) IN
    IF result.exc # "none" THEN result
    ELSE LET text == ExtractText(result.value) IN
         IF text.ok THEN Ret("none", 200, JO([response |-> text.v]), result.calls)
         ELSE Raise(text.v.v, result.calls)

\* request.json() raises on a body that is not JSON, body.get on one that is
\* not a JSON object
generate_image(body, u) ==
    IF body = NotJson THEN Raise("JSONDecodeError", <<>>)
    ELSE IF body.t # "obj" THEN Raise("AttributeError", <<>>)
    ELSE LET payload == Get(body, "payload", JNull) IN
         IF ~Truthy(payload)
         THEN HTTPException(400, JO([error |-> JS("payload is required")]), <<>>)
         ELSE call_google_api(IMAGE_URL, payload, u)

\* the body shared by list_models_v1 and list_models_v1beta
list_models(url, u) ==
    LET made == <<Outbound("GET", url, JNull, Timeout)>> IN
    IF u.kind # "response" THEN Raise(u.kind, made)
    ELSE IF u.body = NotJson THEN Raise("JSONDecodeError", made)
    ELSE IF u.status # 200 THEN HTTPException(u.status, u.body, made)
         ELSE Ret("none", 200, u.body, made)

list_models_v1(u) == list_models(<<V1_BASE_URL, "">>, u)

list_models_v1beta(u) == list_models(<<V1BETA_BASE_URL, "">>, u)

root == Ret("none", 200, JO([status |-> JS("ok"), version |-> JS("with_streaming")]), <<>>)

\* chat_stream builds the generator and returns it in a StreamingResponse;
\* nothing of event_stream has run when the handler returns.
chat_stream(prompt) == Ret("stream", 200, JNull, <<>>)

\* a route whose handler takes `req: ChatRequest`: the framework decodes the
\* request body, then runs the dependencies, then validates the body, and
\* only then calls the handler
chat_route(header, autoStatus, token, body, u) ==
    IF body = NotJson THEN RequestValidationError(<<JsonInvalid>>)
    ELSE Protected(header, autoStatus, token,
             LET parsed == ChatRequest(body) IN
             IF parsed.ok THEN chat(parsed.v.prompt, u)
             ELSE RequestValidationError(parsed.v))

chat_stream_route(header, autoStatus, token, body) ==
    IF body = NotJson THEN RequestValidationError(<<JsonInvalid>>)
    ELSE Protected(header, autoStatus, token,
             LET parsed == ChatRequest(body) IN
             IF parsed.ok THEN chat_stream(parsed.v.prompt)
             ELSE RequestValidationError(parsed.v))

\* a continuation byte of a utf-8 sequence
Cont(b) == b >= 128 /\ b <= 191

\* the length of the utf-8 sequence bytes starts with; 0 when it starts with
\* none (bytes is not empty)
Utf8Len(bytes) ==
    LET n == Len(bytes)
        b1 == bytes[1]
    IN CASE b1 < 128 -> 1
         [] b1 >= 194 /\ b1 <= 223 ->
              IF n >= 2 /\ Cont(bytes[2]) THEN 2 ELSE 0
         [] b1 >= 224 /\ b1 <= 239 ->
              IF /\ n >= 3 /\ Cont(bytes[2]) /\ Cont(bytes[3])
                 /\ (b1 = 224 => bytes[2] >= 160)
                 /\ (b1 = 237 => bytes[2] <= 159)
              THEN 3 ELSE 0
         [] b1 >= 240 /\ b1 <= 244 ->
              IF /\ n >= 4 /\ Cont(bytes[2]) /\ Cont(bytes[3]) /\ Cont(bytes[4])
                 /\ (b1 = 240 => bytes[2] >= 144)
                 /\ (b1 = 244 => bytes[2] <= 143)
              THEN 4 ELSE 0
         [] OTHER -> 0

\* bytes.decode("utf-8") does not raise UnicodeDecodeError
RECURSIVE Utf8Valid(_)
Utf8Valid(bytes) ==
    \/ bytes = <<>>
    \/ /\ Utf8Len(bytes) > 0
       /\ Utf8Valid(SubSeq(bytes, Utf8Len(bytes) + 1, Len(bytes)))

\* bytes.decode("utf-8") of valid bytes: the code points of the text
RECURSIVE Utf8Decode(_)
Utf8Decode(bytes) ==
    IF bytes = <<>> THEN <<>>
    ELSE LET k == Utf8Len(bytes)
             cp == CASE k = 1 -> bytes[1]
                     [] k = 2 -> (bytes[1] - 192) * 64 + (bytes[2] - 128)
                     [] k = 3 -> (bytes[1] - 224) * 4096 + (bytes[2] - 128) * 64
                                 + (bytes[3] - 128)
                     [] OTHER -> (bytes[1] - 240) * 262144 + (bytes[2] - 128) * 4096
                                 + (bytes[3] - 128) * 64 + (bytes[4] - 128)
         IN <<cp>> \o Utf8Decode(SubSeq(bytes, k + 1, Len(bytes)))

DataMarker == <<100, 97, 116, 97, 58>>               \* b"data:"
NewLines == <<10, 10>>                               \* "\n\n"
DoneText == <<100, 97, 116, 97, 58, 32, 91, 68, 79, 78, 69, 93>> \* "data: [DONE]"

\* line.startswith(b"data:")
StartsWith(line, prefix) ==
    Len(line) >= Len(prefix) /\ SubSeq(line, 1, Len(prefix)) = prefix

\* an event the generator yields: text given by its code points, or the
\* f-string "data: {err_json}\n\n" that formats the error body
TextEvent(cps) == [t |-> "text", v |-> cps]
ErrorEvent(err_json) == [t |-> "fmt", v |-> err_json]
DoneEvent == TextEvent(DoneText \o NewLines)

\* one pass of the body of `for line in r.iter_lines()` raises: a data
\* line that is not utf-8
RelayRaises(line) ==
    line # <<>> /\ StartsWith(line, DataMarker) /\ ~Utf8Valid(line)

\* one pass of the body of `for line in r.iter_lines()`: what it yields
RelayLine(line) ==
    IF line = <<>> THEN <<>>
    ELSE IF StartsWith(line, DataMarker) THEN <<TextEvent(Utf8Decode(line) \o NewLines)>>
    ELSE <<>>

\* the error branch of event_stream: r.json(), or the fallback when it raises
ErrJson(body) == IF body = NotJson THEN JO([error |-> JS("stream error")]) ELSE body

\* The Model Resolver of the variants that do not pin a model name.
Capability == "generateContent"

Descriptor(name, methods) == [name |-> name, supportedGenerationMethods |-> methods]

\* the scan as it would be keeping the last match instead of the first
RECURSIVE FirstEligible_LastMatch(_, _)
FirstEligible_LastMatch(models, capability) ==
    IF models = <<>> THEN ""
    ELSE LET later == FirstEligible_LastMatch(Tail(models), capability) IN
         IF later # "" THEN later
         ELSE IF capability \in Head(models).supportedGenerationMethods
              THEN Head(models).name
              ELSE ""

\* the name of the first descriptor, in catalog order, that supports the
\* capability; "" when there is none
RECURSIVE FirstEligible(_, _)
FirstEligible(models, capability) ==
    IF models = <<>> THEN ""
    ELSE IF capability \in Head(models).supportedGenerationMethods
         THEN Head(models).name
         ELSE FirstEligible(Tail(models), capability)

resolve(modelHint, capability, cat) ==
    IF modelHint # "" THEN [kind |-> "ok", name |-> modelHint, calls |-> <<>>]
    ELSE LET made == <<Outbound("GET", <<V1BETA_BASE_URL, "">>, JNull, Timeout)>> IN
         IF cat.kind # "response" \/ cat.status # 200
         THEN [kind |-> "UpstreamUnavailable", name |-> "", calls |-> made]
         ELSE LET name == FirstEligible(cat.models, capability) IN
              IF name = ""
              THEN [kind |-> "NoEligibleModel", name |-> "", calls |-> made]
              ELSE [kind |-> "ok", name |-> name, calls |-> made]

\* /chat of those variants: resolve, then generate against the resolved
\* model; any other exception is turned into a 500 carrying its message
chat_resolved(prompt, modelHint, cat, u) ==
    LET m == resolve(modelHint, Capability, cat) IN
    IF m.kind # "ok"
    THEN HTTPException(500, JO([error |-> JS(m.kind), capability |-> JS(Capability)]), m.calls)
    ELSE LET url == <<V1BETA_BASE_URL, "/", m.name, ":generateContent">>
             result == call_google_api(url, ChatPayload(prompt), u)
             made == m.calls \o result.calls
             text == ExtractText(result.value)
         IN IF result.exc = "error" THEN HTTPException(500, result.value, made)
            ELSE IF result.exc = "http"
            THEN HTTPException(result.status, result.value, made)
            ELSE IF ~text.ok THEN HTTPException(500, text.v, made)
            ELSE Ret("none", 200,
                     JO([response |-> text.v, model_used |-> JS(m.name)]), made)

http_exception_handler(exc) ==
    [status |-> exc.status, ctype |-> "json", body |-> JO([detail |-> exc.value])]

\* what the framework sends for a handler's outcome
Respond(ret) ==
    CASE ret.exc = "none" -> [status |-> 200, ctype |-> "json", body |-> ret.value]
      [] ret.exc = "http" -> http_exception_handler(ret)
      [] ret.exc = "validation" ->
           [status |-> 422, ctype |-> "json", body |-> JO([detail |-> ret.value])]
      [] ret.exc = "stream" -> [status |-> 200, ctype |-> "text/event-stream", body |-> JNull]
      [] OTHER -> [status |-> 500, ctype |-> "text", body |-> JS("Internal Server Error")]

----------------------------------------------------------------------------
(* Inputs.                                                                 *)

Tokens == {DefaultApiToken, "s3cret"}
Headers ==
    {[present |-> FALSE, value |-> ""]}
    \cup {[present |-> TRUE, value |-> v] : v \in Tokens \cup {"", "wrong"}}
AutoErrorStatus == {401, 403}
Prompts == {"hi"}

ErrorBodies ==
    { JO([error |-> JO([message |-> JS("quota exceeded")])]),
      JO([error |-> JO([code |-> JS("404"), status |-> JS("NOT_FOUND")]), extra |-> JS("x")]),
      JO([message |-> JS("bad gateway")]),
      JO([error |-> JNull]),
      EmptyObj,
      EmptyArr,
      JNull }
Part(txt) == JO([text |-> JS(txt)])
Cand(parts) == JO([content |-> JO([role |-> JS("model"), parts |-> JA(parts)])])
ChatBodies ==
    { EmptyObj,
      JO([promptFeedback |-> JS("SAFETY")]),
      JO([candidates |-> EmptyArr]),
      JO([candidates |-> JA(<<JO([finishReason |-> JS("STOP")])>>)]),
      JO([candidates |-> JA(<<JO([content |-> JO([role |-> JS("model")])])>>)]),
      JO([candidates |-> JA(<<Cand(<<>>)>>)]),
      JO([candidates |-> JA(<<Cand(<<JO([inlineData |-> JS("png")])>>)>>)]),
      JO([candidates |-> JA(<<Cand(<<Part("hello")>>)>>)]),
      JO([candidates |-> JA(<<Cand(<<Part("a"), Part("b")>>), Cand(<<Part("c")>>)>>)]),
      JO([candidates |-> JA(<<Cand(<<JO([inlineData |-> JS("png")]), Part("b")>>)>>)]),
      JO([candidates |-> JNull]),
      JO([candidates |-> JA(<<JNull>>)]),
      JO([candidates |-> JA(<<JO([content |-> JNull])>>)]),
      JO([candidates |-> JA(<<Cand(<<JS("hello")>>)>>)]),
      JO([candidates |-> JO([first |-> Cand(<<Part("a")>>)])]),
      JO([candidates |-> JS("none")]),
      JO([candidates |-> JNum(1)]),
      EmptyArr }
ImagePayload == JO([contents |-> JA(<<JO([parts |-> JA(<<Part("draw a cat")>>)])>>)])
ImageBodies ==
    { EmptyObj,
      JO([prompt |-> JS("draw a cat")]),
      JO([payload |-> JNull]),
      JO([payload |-> EmptyObj]),
      JO([payload |-> EmptyArr]),
      JO([payload |-> JS("")]),
      JO([payload |-> JNum(0)]),
      JO([payload |-> JBool(FALSE)]),
      JO([payload |-> ImagePayload]),
      JO([payload |-> ImagePayload, extra |-> JS("x")]),
      EmptyArr,
      JS("payload"),
      NotJson }
CatalogBodies ==
    { EmptyObj,
      JO([models |-> EmptyArr]),
      JO([models |-> JA(<<JO([name |-> JS("models/a")])>>)]),
      EmptyArr,
      JNull }
Statuses == {200, 299, 400, 418, 429, 500}

MaxCatalog == 3
Descriptors ==
    { Descriptor("models/a", {"embedContent"}),
      Descriptor("models/b", {"generateContent"}),
      Descriptor("models/c", {"countTokens", "generateContent"}),
      Descriptor("models/d", {}) }
RECURSIVE SeqsUpTo(_, _)
SeqsUpTo(S, n) ==
    IF n = 0 THEN {<<>>}
    ELSE LET shorter == SeqsUpTo(S, n - 1) IN
         shorter \cup {Append(q, x) : q \in shorter, x \in S}
Catalog(kind, status, models) == [kind |-> kind, status |-> status, models |-> models]
NoCatalog == Catalog("none", 0, <<>>)
Catalogs ==
    {Catalog("ConnectionError", 0, <<>>), Catalog("response", 500, <<>>)}
    \cup {Catalog("response", 200, ms) : ms \in SeqsUpTo(Descriptors, MaxCatalog)}
ModelHints == {"", "models/pinned"}
NoResolver == [hint |-> "", catalog |-> NoCatalog]

MaxLines == 3
Lines ==
    { <<>>,                                          \* blank
      <<100, 97, 116, 97, 58, 32, 65>>,              \* data: A
      <<100, 97, 116, 97, 58, 123, 195, 169, 125>>,  \* data:{e-acute}
      DataMarker,                                    \* data:
      <<58, 32, 112>>,                               \* : p      (a comment)
      <<101, 118, 101, 110, 116, 58, 32, 120>>,      \* event: x
      <<32, 100, 97, 116, 97, 58, 32, 65>>,          \* " data: A"
      <<100, 97, 116, 97>>,                          \* data     (no colon)
      <<100, 97, 116, 97, 58, 32, 255>>,             \* data: and a byte that is not utf-8
      <<255, 254>> }                                 \* not utf-8, and no data line

Upstream(kind, status, body) == [kind |-> kind, status |-> status, body |-> body]
NoUp == Upstream("none", 0, JNull)
Faults == {Upstream("ConnectionError", 0, JNull), Upstream("Timeout", 0, JNull)}
UnaryOutcomes(okBodies) ==
    Faults
    \cup {Upstream("response", 200, b) : b \in okBodies \cup {NotJson}}
    \cup {Upstream("response", s, b) : s \in Statuses \ {200}, b \in ErrorBodies \cup {NotJson}}
ResolvedOutcomes ==
    { Upstream("Timeout", 0, JNull),
      Upstream("response", 429, JO([error |-> JO([message |-> JS("quota exceeded")])])),
      Upstream("response", 200, JO([candidates |-> JA(<<Cand(<<Part("hello")>>)>>)])) }

\* bodies of a request to /chat and /chat/stream
ChatRequestBodies ==
    { JO([prompt |-> JS(p)]) : p \in Prompts }
    \cup { JO([prompt |-> JS("hi"), model |-> JS("gemini")]),
           EmptyObj,
           JO([prompt |-> JNum(1)]),
           JO([prompt |-> JNull]),
           EmptyArr,
           JNull,
           NotJson }

Request(route, header, body) == [route |-> route, header |-> header, body |-> body]
NoReq == Request("none", [present |-> FALSE, value |-> ""], JNull)
NoResp == [status |-> 0, ctype |-> "none", body |-> JNull]

----------------------------------------------------------------------------
(* The state machine.                                                      *)

Init ==
    /\ apiToken \in Tokens
    /\ req = NoReq
    /\ up = NoUp
    /\ resp = NoResp
    /\ calls = <<>>
    /\ unhandled = FALSE
    /\ gen = "none"
    /\ r = NoUp
    /\ lines = <<>>
    /\ out = <<>>
    /\ resolver = NoResolver
    /\ connOpen = FALSE
    /\ clientGone = FALSE

\* A unary route: the framework runs the gate and the handler and answers.
\* Requests share no state, so the machine follows one request from its
\* arrival to its end.
Serve(route, header, body, u, ret) ==
    /\ req = NoReq
    /\ resolver' = resolver
    /\ req' = Request(route, header, body)
    /\ up' = (IF ret.calls = <<>> THEN NoUp ELSE u)
    /\ resp' = Respond(ret)
    /\ calls' = ret.calls
    /\ unhandled' = (ret.exc = "error")
    /\ gen' = IF ret.exc = "stream" THEN "created" ELSE "none"
    /\ r' = NoUp
    /\ lines' = <<>>
    /\ out' = <<>>
    /\ connOpen' = FALSE
    /\ clientGone' = FALSE
    /\ UNCHANGED apiToken

Chat ==
    /\ req = NoReq
    /\ \E header \in Headers, a \in AutoErrorStatus, body \in ChatRequestBodies,
          u \in UnaryOutcomes(ChatBodies) :
           Serve("POST /chat", header, body, u, chat_route(header, a, apiToken, body, u))

GenerateImage ==
    /\ req = NoReq
    /\ \E header \in Headers, a \in AutoErrorStatus, body \in ImageBodies,
          u \in UnaryOutcomes(ChatBodies) :
           Serve("POST /generate-image", header, body, u,
                 Protected(header, a, apiToken, generate_image(body, u)))

ListModelsV1 ==
    /\ req = NoReq
    /\ \E header \in Headers, a \in AutoErrorStatus, u \in UnaryOutcomes(CatalogBodies) :
           Serve("GET /models/v1", header, JNull, u,
                 Protected(header, a, apiToken, list_models_v1(u)))

ListModelsV1beta ==
    /\ req = NoReq
    /\ \E header \in Headers, a \in AutoErrorStatus, u \in UnaryOutcomes(CatalogBodies) :
           Serve("GET /models/v1beta", header, JNull, u,
                 Protected(header, a, apiToken, list_models_v1beta(u)))

Root ==
    /\ req = NoReq
    /\ \E header \in Headers : Serve("GET /", header, JNull, NoUp, root)

ChatStream ==
    /\ req = NoReq
    /\ \E header \in Headers, a \in AutoErrorStatus, body \in ChatRequestBodies :
           Serve("POST /chat/stream", header, body, NoUp,
                 chat_stream_route(header, a, apiToken, body))

StreamCall == Outbound("POST", STREAM_URL, ChatPayload(req.body.v.prompt.v), 0)

\* the first next(): the generator starts running and requests.post(...,
\* stream=True) sends the call, then waits for the upstream to answer
GenStart ==
    /\ gen = "created"
    /\ gen' = "post"
    /\ calls' = Append(calls, StreamCall)
    /\ UNCHANGED <<apiToken, clientGone, req, up, resp, resolver, unhandled, r, lines, out,
                   connOpen>>

\* requests.post fails before the with block is entered
GenOpenFault ==
    /\ gen = "post"
    /\ gen' = "raised"
    /\ r' = Upstream("ConnectionError", 0, JNull)
    /\ unhandled' = TRUE
    /\ UNCHANGED <<apiToken, clientGone, req, up, resp, resolver, calls, lines, out, connOpen>>

\* the upstream answers with its status and the with block is entered: a 200
\* enters the loop over the lines, any other status waits in r.json() for
\* the error body
GenOpen ==
    /\ gen = "post"
    /\ \E s \in Statuses :
          /\ r' = Upstream("response", s, JNull)
          /\ gen' = IF s # 200 THEN "readError" ELSE "loop"
    /\ connOpen' = TRUE
    /\ UNCHANGED <<apiToken, clientGone, req, up, resp, resolver, calls, unhandled, lines,
                   out>>

\* r.json() ends, with the decoded error body or with an exception that is
\* replaced by the fallback: the one error event is yielded
GenErrorBody ==
    /\ gen = "readError"
    /\ \E b \in ErrorBodies \cup {NotJson} :
          /\ r' = Upstream("response", r.status, b)
          /\ out' = Append(out, ErrorEvent(ErrJson(b)))
    /\ gen' = "yieldError"
    /\ UNCHANGED <<apiToken, clientGone, req, up, resp, resolver, calls, unhandled, lines,
                   connOpen>>

\* iter_lines() delivers a line: a data line is yielded, any other is
\* skipped; a data line that cannot be decoded raises out of the with block
GenReadLine ==
    /\ gen = "loop"
    /\ Len(lines) < MaxLines
    /\ \E line \in Lines :
          /\ lines' = Append(lines, line)
          /\ IF RelayRaises(line)
             THEN /\ gen' = "raised"
                  /\ out' = out
                  /\ connOpen' = FALSE
                  /\ unhandled' = TRUE
             ELSE /\ gen' = IF RelayLine(line) # <<>> THEN "yieldLine" ELSE "loop"
                  /\ out' = out \o RelayLine(line)
                  /\ UNCHANGED <<connOpen, unhandled>>
    /\ UNCHANGED <<apiToken, clientGone, req, up, resp, resolver, calls, r>>

\* iter_lines() is exhausted: the terminal marker is yielded
GenExhausted ==
    /\ gen = "loop"
    /\ out' = Append(out, DoneEvent)
    /\ gen' = "yieldDone"
    /\ UNCHANGED <<apiToken, clientGone, req, up, resp, resolver, calls, unhandled, r, lines, connOpen>>

\* iter_lines() raises (the upstream connection breaks): the exception leaves
\* the with block, which closes the response
GenReadFault ==
    /\ gen = "loop"
    /\ gen' = "raised"
    /\ connOpen' = FALSE
    /\ unhandled' = TRUE
    /\ UNCHANGED <<apiToken, clientGone, req, up, resp, resolver, calls, r, lines, out>>

\* the resumption as it would be without the `return` after the error event
GenResume_NoReturn ==
    /\ ~clientGone
    /\ gen \in {"yieldLine", "yieldError", "yieldDone"}
    /\ IF gen \in {"yieldLine", "yieldError"}
       THEN gen' = "loop" /\ connOpen' = connOpen
       ELSE gen' = "finished" /\ connOpen' = FALSE
    /\ UNCHANGED <<apiToken, clientGone, req, up, resp, resolver, calls, unhandled, r, lines, out>>

\* the consumer asks for the next event: after a line the loop goes on; after
\* the error event (return) or the marker (end of the body) the with block
\* is left and the generator is finished
GenResume ==
    /\ ~clientGone
    /\ gen \in {"yieldLine", "yieldError", "yieldDone"}
    /\ IF gen = "yieldLine"
       THEN gen' = "loop" /\ connOpen' = connOpen
       ELSE gen' = "finished" /\ connOpen' = FALSE
    /\ UNCHANGED <<apiToken, clientGone, req, up, resp, resolver, calls, unhandled, r, lines, out>>

\* the client disconnects while the StreamingResponse is being sent: the
\* framework stops consuming the generator; a next() already running in its
\* worker thread is not interrupted
Disconnect ==
    /\ gen \in {"created", "post", "readError", "loop", "yieldLine", "yieldError",
               "yieldDone"}
    /\ ~clientGone
    /\ clientGone' = TRUE
    /\ UNCHANGED <<apiToken, req, up, resp, resolver, calls, unhandled, gen, r, lines,
                   out, connOpen>>

\* the abandoned generator is closed once it is suspended: GeneratorExit is
\* raised at the yield it is suspended on and leaves the with block; a
\* generator that never started just ends
GenClose ==
    /\ clientGone
    /\ gen \in {"created", "yieldLine", "yieldError", "yieldDone"}
    /\ gen' = "closed"
    /\ connOpen' = FALSE
    /\ UNCHANGED <<apiToken, clientGone, req, up, resp, resolver, calls, unhandled, r, lines, out>>

\* /chat of the variants that resolve the model at request time
ChatResolved ==
    /\ req = NoReq
    /\ \E header \in Headers, a \in AutoErrorStatus, p \in Prompts, hint \in ModelHints,
          cat \in Catalogs, u \in ResolvedOutcomes :
          LET ret == Protected(header, a, apiToken, chat_resolved(p, hint, cat, u)) IN
          /\ req' = Request("POST /chat (resolver)", header, JO([prompt |-> JS(p)]))
          /\ resolver' = [hint |-> hint,
                          catalog |-> IF ret.calls # <<>> /\ ret.calls[1].method = "GET"
                                      THEN cat ELSE NoCatalog]
          /\ up' = (IF ret.calls # <<>> /\ ret.calls[Len(ret.calls)].method = "POST"
                    THEN u ELSE NoUp)
          /\ resp' = Respond(ret)
          /\ calls' = ret.calls
          /\ unhandled' = (ret.exc = "error")
    /\ UNCHANGED <<apiToken, clientGone, gen, r, lines, out, connOpen>>

Next ==
    \/ Chat
    \/ ChatResolved
    \/ ChatStream
    \/ GenStart
    \/ GenOpenFault
    \/ GenOpen
    \/ GenErrorBody
    \/ GenReadLine
    \/ GenExhausted
    \/ GenReadFault
    \/ GenResume
    \/ Disconnect
    \/ GenClose
    \/ GenerateImage
    \/ ListModelsV1
    \/ ListModelsV1beta
    \/ Root

Spec == Init /\ [][Next]_vars

\* the framework asks a suspended generator for the next event while the
\* client is there and closes it once the client is gone; the upstream is
\* under no obligation to send a line or to end the stream, and the
\* streaming call sets no timeout
FairSpec == Spec /\ WF_vars(GenResume \/ GenClose)

----------------------------------------------------------------------------
(* Properties.                                                             *)

ProtectedRoutes ==
    {"POST /chat", "POST /chat/stream", "POST /generate-image",
     "GET /models/v1", "GET /models/v1beta"}
KeyAccepted == req.header.present /\ req.header.value = apiToken
InvalidTokenResponse ==
    [status |-> 401, ctype |-> "json",
     body |-> JO([detail |-> JO([error |-> JS("Invalid API Token")])])]

\* C1: on every protected route a request whose X-API-KEY is missing or
\* differs from the expected token is answered 401 with
\* {detail: {error: "Invalid API Token"}} and no outbound call is made.
C1_RejectedWithInvalidToken ==
    (req.route \in ProtectedRoutes /\ ~KeyAccepted)
        => /\ resp = InvalidTokenResponse
           /\ calls = <<>>
           /\ gen = "none"

\* utf-8 encoding of text given by its code points (below 2048)
RECURSIVE Utf8Encode(_)
Utf8Encode(cps) ==
    IF cps = <<>> THEN <<>>
    ELSE (IF cps[1] < 128 THEN <<cps[1]>>
          ELSE <<192 + (cps[1] \div 64), 128 + (cps[1] % 64)>>)
         \o Utf8Encode(Tail(cps))

IsDataLine(line) ==
    Len(line) >= 5 /\ line[1] = 100 /\ line[2] = 97 /\ line[3] = 116
                   /\ line[4] = 97 /\ line[5] = 58
Streaming200 ==
    req.route = "POST /chat/stream" /\ r.kind = "response" /\ r.status = 200
\* the events are the data lines among ls, in order, each with "\n\n" added
RelaysExactly(events, ls) ==
    LET data == SelectSeq(ls, IsDataLine) IN
    /\ Len(events) = Len(data)
    /\ \A k \in 1..Len(events) :
          events[k].t = "text" /\ Utf8Encode(events[k].v) = data[k] \o <<10, 10>>
EndsWithDone(events) ==
    /\ Len(events) >= 1
    /\ events[Len(events)] = TextEvent(<<100, 97, 116, 97, 58, 32, 91, 68, 79, 78, 69, 93, 10, 10>>)

\* C2: on a 200 upstream status the events emitted are exactly the upstream
\* lines that begin with "data:", in arrival order, each verbatim with "\n\n"
\* added, blank and non-data lines dropped; once the upstream is exhausted
\* exactly one "data: [DONE]\n\n" follows them and nothing follows it.
C2_RelayOrderAndDone ==
    Streaming200 =>
        CASE gen \in {"loop", "yieldLine"} -> RelaysExactly(out, lines)
          [] gen \in {"yieldDone", "finished"} ->
                EndsWithDone(out) /\ RelaysExactly(SubSeq(out, 1, Len(out) - 1), lines)
          [] OTHER ->
                \/ RelaysExactly(out, lines)
                \/ EndsWithDone(out) /\ RelaysExactly(SubSeq(out, 1, Len(out) - 1), lines)

C2_Witness ==
    /\ Streaming200
    /\ gen = "finished"
    /\ lines = << <<100, 97, 116, 97, 58, 123, 195, 169, 125>>, <<>>,
                  <<100, 97, 116, 97, 58, 32, 65>> >>
    /\ Len(out) = 3

\* C3: when the initial upstream status is not 200 exactly one event is
\* emitted, carrying the upstream error body or the fallback error when the
\* body cannot be read, and nothing is emitted before the body has been
\* read; no upstream line is read or forwarded and "data: [DONE]" is never
\* emitted.
C3_StreamErrorOnce ==
    (req.route = "POST /chat/stream" /\ r.kind = "response" /\ r.status # 200)
        => /\ gen \in {"readError", "yieldError", "finished", "closed"}
           /\ lines = <<>>
           /\ IF gen = "readError" THEN out = <<>>
              ELSE /\ Len(out) = 1
                   /\ out[1].t = "fmt"
                   /\ out[1].v = (IF r.body = NotJson
                                  THEN JO([error |-> JS("stream error")])
                                  ELSE r.body)

C3_Witness ==
    /\ req.route = "POST /chat/stream"
    /\ r.kind = "response" /\ r.status = 429 /\ r.body = NotJson
    /\ gen = "finished"
    /\ Len(out) = 1

EmptyPayloads == {JNull, EmptyObj, EmptyArr, JS(""), JNum(0), JBool(FALSE)}
LacksPayload(body) ==
    \/ body.t # "obj"
    \/ "payload" \notin DOMAIN body.v
    \/ body.v.payload \in EmptyPayloads

\* C4: an authenticated POST /generate-image whose body lacks `payload`, or
\* carries an empty one, is answered 400 and no outbound call is made; a body
\* with a payload leads to exactly one outbound call, carrying that payload.
C4_PayloadRequired ==
    (req.route = "POST /generate-image" /\ KeyAccepted)
        => IF LacksPayload(req.body)
           THEN /\ resp.status = 400
                /\ resp.body = JO([detail |-> JO([error |-> JS("payload is required")])])
                /\ calls = <<>>
           ELSE /\ Len(calls) = 1
                /\ calls[1].json = req.body.v.payload

C4_Witness ==
    /\ req.route = "POST /generate-image" /\ KeyAccepted
    /\ req.body = JO([payload |-> EmptyObj])
    /\ resp.status = 400
    /\ calls = <<>>

\* C5: on /chat and /generate-image an upstream answer with a status S other
\* than 200 and a JSON body B is answered with status S and {detail: D}, D
\* being B's `error` member when B has one and B otherwise.
C5_UpstreamErrorPassThrough ==
    (/\ req.route \in {"POST /chat", "POST /generate-image"}
     /\ calls # <<>>
     /\ up.kind = "response" /\ up.status # 200 /\ up.body # NotJson)
        => /\ resp.status = up.status
           /\ resp.ctype = "json"
           /\ resp.body = JO([detail |->
                  IF up.body.t = "obj" /\ "error" \in DOMAIN up.body.v
                  THEN up.body.v.error ELSE up.body])

C5_Witness ==
    /\ req.route = "POST /chat"
    /\ up = Upstream("response", 429, JO([error |-> JO([message |-> JS("quota exceeded")])]))
    /\ resp.status = 429
    /\ resp.body = JO([detail |-> JO([message |-> JS("quota exceeded")])])

\* every level down to the text of the first part of the first candidate is there
HasFirstText(b) ==
    /\ b.t = "obj" /\ "candidates" \in DOMAIN b.v
    /\ b.v.candidates.t = "arr" /\ Len(b.v.candidates.v) > 0
    /\ b.v.candidates.v[1].t = "obj"
    /\ "content" \in DOMAIN b.v.candidates.v[1].v
    /\ b.v.candidates.v[1].v.content.t = "obj"
    /\ "parts" \in DOMAIN b.v.candidates.v[1].v.content.v
    /\ b.v.candidates.v[1].v.content.v.parts.t = "arr"
    /\ Len(b.v.candidates.v[1].v.content.v.parts.v) > 0
    /\ b.v.candidates.v[1].v.content.v.parts.v[1].t = "obj"
    /\ "text" \in DOMAIN b.v.candidates.v[1].v.content.v.parts.v[1].v

\* C6: on /chat a 200 upstream JSON body is answered 200 with {response: T},
\* T being the text of the first part of the first candidate's content when
\* candidates, content, parts and text are all there, and "" when any of
\* them is missing or an empty list.
C6_BestEffortExtraction ==
    (/\ req.route = "POST /chat" /\ KeyAccepted
     /\ up.kind = "response" /\ up.status = 200 /\ up.body # NotJson)
        => /\ resp.status = 200
           /\ ~unhandled
           /\ resp.body = JO([response |->
                  IF HasFirstText(up.body)
                  THEN up.body.v.candidates.v[1].v.content.v.parts.v[1].v.text
                  ELSE JS("")])

C6_Witness ==
    /\ req.route = "POST /chat" /\ KeyAccepted
    /\ up.kind = "response" /\ up.status = 200
    /\ up.body = JO([candidates |-> JA(<<Cand(<<Part("a"), Part("b")>>), Cand(<<Part("c")>>)>>)])
    /\ resp.body = JO([response |-> JS("a")])

InternalFault ==
    /\ req.route \in ProtectedRoutes
    /\ calls # <<>>
    /\ \/ up.kind \in {"ConnectionError", "Timeout"}
       \/ up.kind = "response" /\ up.body = NotJson

\* C7: a network failure, a timeout or an upstream body that is not JSON is
\* caught at the handler boundary and answered 500 with the exception's
\* message as detail; no such fault leaves the handler as an exception.
C7_InternalFaultCaught ==
    InternalFault
        => /\ ~unhandled
           /\ resp.status = 500
           /\ resp.ctype = "json"
           /\ "detail" \in DOMAIN resp.body.v

ErrorEmitted(events) == \E k \in 1..Len(events) : events[k].t = "fmt"
ErrorReported ==
    \/ resp.status >= 400
    \/ unhandled
    \/ ErrorEmitted(out)

\* C8: every error reported to the client, on every route, /chat/stream
\* included, is {detail: <payload>} together with a non-success status.
C8_UniformErrorEnvelope ==
    ErrorReported
        => /\ resp.status >= 400
           /\ resp.ctype = "json"
           /\ DOMAIN resp.body.v = {"detail"}

ResolverAsked ==
    /\ req.route = "POST /chat (resolver)" /\ KeyAccepted
    /\ resolver.hint = ""
    /\ resolver.catalog.kind = "response" /\ resolver.catalog.status = 200
Supports(d) == "generateContent" \in d.supportedGenerationMethods

\* C9: with no model pinned the resolver returns the name of the first
\* descriptor, in catalog order, that supports "generateContent", and the
\* generate call goes to that model; with an empty catalog or no such
\* descriptor it fails with NoEligibleModel and no generate call is made.
C9_FirstMatchResolution ==
    ResolverAsked =>
        LET ms == resolver.catalog.models IN
        IF \E i \in 1..Len(ms) : Supports(ms[i])
        THEN \E i \in 1..Len(ms) :
                /\ Supports(ms[i])
                /\ \A j \in 1..(i - 1) : ~Supports(ms[j])
                /\ Len(calls) = 2
                /\ calls[1].method = "GET"
                /\ calls[2].method = "POST"
                /\ calls[2].url = <<V1BETA_BASE_URL, "/", ms[i].name, ":generateContent">>
        ELSE /\ Len(calls) = 1
             /\ calls[1].method = "GET"
             /\ resp.status >= 400
             /\ resp.body.v.detail.v.error = JS("NoEligibleModel")

C9_Witness ==
    /\ ResolverAsked
    /\ resolver.catalog.models =
           << Descriptor("models/a", {"embedContent"}),
              Descriptor("models/b", {"generateContent"}),
              Descriptor("models/c", {"countTokens", "generateContent"}) >>
    /\ Len(calls) = 2
    /\ calls[2].url = <<V1BETA_BASE_URL, "/", "models/b", ":generateContent">>

\* C10: once the client has disconnected with the upstream connection open,
\* no further upstream line is read or forwarded and the connection is
\* eventually closed; in every terminal state of the relay (normal end,
\* error end, cancelled) the upstream connection is closed.
C10_CancellationClosesUpstream ==
    /\ [](gen \in {"finished", "closed", "raised"} => ~connOpen)
    /\ [][(clientGone /\ connOpen) => (lines' = lines /\ out' = out)]_vars
    /\ ((clientGone /\ connOpen) ~> ~connOpen)

====
